---- MODULE Spec2Model ----
(***************************************************************************)
(* Messaging and presence coordinator of the SocialSync backend.           *)
(*                                                                         *)
(* backend/server.js holds two builds of the server (lines 1-1910 and      *)
(* 1912-4080); services/logger.js holds, after the logger service, the     *)
(* messages router (routes/messages.js) that build 2 mounts under /api.    *)
(* A run of the model is a run of one build: `build` is chosen in Init and *)
(* never changes.                                                          *)
(*                                                                         *)
(* Node runs every handler to completion between two awaits, so an action  *)
(* is the code between two yield points of a handler.  The handlers that   *)
(* are suspended at an await are the records of `inflight`.                *)
(***************************************************************************)
EXTENDS Naturals, Integers, Sequences, FiniteSets, TLC

VARIABLES
    build,           \* 1: server.js lines 1-1910;  2: server.js lines 1912-4080
    sockets,         \* sequence of socket records; a socket's handle (socket.id) is its index
    connectedUsers,  \* the Map userId -> socket.id, as a function on its key set
    messages,        \* the Message collection, in order of persistence; _id is the index
    inflight,        \* handler invocations suspended at an await
    outbox,          \* events emitted and HTTP responses sent by the last step, in order
    history,         \* per message: what was persisted and emitted about it, in order
    ops              \* client operations begun: handshakes, disconnects, events, requests

vars == <<build, sockets, connectedUsers, messages, inflight, outbox, history, ops>>

----------------------------------------------------------------------------
(* Bounds *)

MaxOps == 4          \* client operations in a run

----------------------------------------------------------------------------
(* Identities *)

Undefined == "<undefined>"      \* the JavaScript value undefined (not a string)
Users == {"u1", "u2"}           \* _id of the documents of the User collection
GhostId == "u9"                 \* a well-formed id that no User document carries
Ids == Users \cup {GhostId}

\* usernames of the User collection; "nobody" is the name of no user
Usernames == {"alice", "bob", "nobody"}

\* User.findOne({ username }): the _id of the document found, Undefined for null
FindOneByUsername(username) ==
    CASE username = "alice" -> "u1"
      [] username = "bob"   -> "u2"
      [] OTHER              -> Undefined

\* position of an id in the order Array.prototype.sort gives strings
Rank(id) ==
    CASE id = ""        -> 0
      [] id = "u1"      -> 1
      [] id = "u2"      -> 2
      [] id = "u9"      -> 3
      [] OTHER          -> 4

\* the pair as given, unsorted
UnsortedPair(a, b) == <<a, b>>

\* [a, b].sort()
SortPair(a, b) == IF Rank(a) <= Rank(b) THEN <<a, b>> ELSE <<b, a>>

\* [senderId, recipientId].sort().join("_")
ConversationId(a, b) == SortPair(a, b)[1] \o "_" \o SortPair(a, b)[2]

\* `dm:${idsSorted.join(':')}` of the messages router
RouterConversationId(a, b) == "dm:" \o SortPair(a, b)[1] \o ":" \o SortPair(a, b)[2]

\* JavaScript truthiness of a string-or-undefined value
Truthy(x) == x # Undefined /\ x # ""

\* a || b
OrElse(a, b) == IF Truthy(a) THEN a ELSE b

----------------------------------------------------------------------------
(* Texts: a text is `pre` blanks, `core` non-blank characters, `post` blanks *)

messageLength == 5000

Text(pre, core, post) == [pre |-> pre, core |-> core, post |-> post]
Length(t) == t.pre + t.core + t.post
\* String.prototype.trim
Trim(t) == IF t.core = 0 THEN Text(0, 0, 0) ELSE Text(0, t.core, 0)
\* truthiness of a string: non-empty
TextTruthy(t) == Length(t) > 0

\* the texts clients send
Texts == { Text(0, 0, 0), Text(2, 0, 0), Text(1, 2, 1), Text(0, messageLength + 1, 0) }

----------------------------------------------------------------------------
(* Tokens presented at the socket handshake *)

Token(present, verifies, sub, userId, oid, id) ==
    [present |-> present, verifies |-> verifies, sub |-> sub, userId |-> userId,
     oid |-> oid, id |-> id]

NoToken == Token(FALSE, FALSE, Undefined, Undefined, Undefined, Undefined)
ForgedToken == Token(TRUE, FALSE, "u1", Undefined, Undefined, Undefined)   \* jwt.verify throws
SubToken(u) == Token(TRUE, TRUE, u, Undefined, Undefined, Undefined)       \* { sub: u }
UserIdToken(u) == Token(TRUE, TRUE, Undefined, u, Undefined, Undefined)    \* { userId: u }
AnonymousToken == Token(TRUE, TRUE, Undefined, Undefined, Undefined, Undefined)  \* no id claim

Tokens ==
    { NoToken, ForgedToken, UserIdToken("u1"), AnonymousToken }
    \cup { SubToken(u) : u \in Users }

----------------------------------------------------------------------------
(* Events *)

NoMessage == 0
NoSocket == 0

\* an emitted socket event or an HTTP response (to = {} for a response)
Event(ev, to, userId, messageId, conversationId, keys) ==
    [ev |-> ev, to |-> to, userId |-> userId, messageId |-> messageId,
     conversationId |-> conversationId, keys |-> keys]

Handles == 1..Len(sockets)
Connected == { h \in Handles : sockets[h].state = "connected" }

\* an emit that goes to every open socket (io.emit) instead of the one socket
EmitToAll(h, ev, userId, messageId, conversationId) ==
    Event(ev, Connected, userId, messageId, conversationId, {})

\* socket.emit(ev, ...)
EmitTo(h, ev, userId, messageId, conversationId) ==
    Event(ev, {h}, userId, messageId, conversationId, {})

----------------------------------------------------------------------------
(* Connection registry: io.use, io.on("connection"), disconnect, typing *)

\* the user id io.use stores in socket.userId, Undefined when there is none
HandshakeUserId(token) ==
    IF build = 1
    THEN OrElse(token.sub, OrElse(token.userId, OrElse(token.oid, token.id)))
    ELSE token.sub

\* io.use: TRUE when the middleware calls next() without an error
HandshakeAccepted(token) ==
    IF build = 1
    THEN /\ token.present
         /\ token.verifies
         /\ Truthy(HandshakeUserId(token))
    ELSE /\ token.present
         /\ token.verifies

\* a registry that keeps the first socket of a user
MapSetKeepsFirst(map, key, value) ==
    [k \in (DOMAIN map) \cup {key} |-> IF k \in DOMAIN map THEN map[k] ELSE value]

\* connectedUsers.set(key, value)
MapSet(map, key, value) ==
    [k \in (DOMAIN map) \cup {key} |-> IF k = key THEN value ELSE map[k]]

\* a delete that leaves the entry in the registry
MapDeleteKeeps(map, key) == map

\* connectedUsers.delete(key)
MapDelete(map, key) == [k \in (DOMAIN map) \ {key} |-> map[k]]

\* a lookup that falls back to some registered socket when the key is absent
MapGetOrAny(map, key) ==
    IF key \in DOMAIN map THEN map[key]
    ELSE IF DOMAIN map = {} THEN NoSocket
    ELSE map[CHOOSE k \in DOMAIN map : TRUE]

\* connectedUsers.get(key): NoSocket for undefined
MapGet(map, key) == IF key \in DOMAIN map THEN map[key] ELSE NoSocket

\* a socket that passed io.use: socket.handshake.auth.token, socket.userId and
\* whether the socket is still open
Socket(token, userId, state) == [token |-> token, userId |-> userId, state |-> state]

\* a handshake that io.use rejects: no connection event, nothing registered
HandshakeRejected(token) ==
    /\ ops < MaxOps
    /\ ~HandshakeAccepted(token)
    /\ outbox' = << Event("connect_error", {}, Undefined, NoMessage, "", {}) >>
    /\ ops' = ops + 1
    /\ UNCHANGED <<build, sockets, connectedUsers, messages, inflight, history>>

\* io.use accepts, io.on("connection") runs
Connection(token) ==
    /\ ops < MaxOps
    /\ HandshakeAccepted(token)
    /\ LET h == Len(sockets) + 1
           userId == HandshakeUserId(token)
           registry == MapSet(connectedUsers, userId, h)
       IN  /\ sockets' = Append(sockets, Socket(token, userId, "connected"))
           /\ connectedUsers' = registry
           /\ outbox' = << Event("user_online", Connected, userId, NoMessage, "", {}),
                           Event("online_users", Connected \cup {h}, "", NoMessage, "",
                                 DOMAIN registry) >>
    /\ ops' = ops + 1
    /\ UNCHANGED <<build, messages, inflight, history>>

\* a disconnect handler that leaves the registry as it is
DisconnectKeepsEntry(h) ==
    /\ ops < MaxOps
    /\ h \in Connected
    /\ sockets' = [sockets EXCEPT ![h].state = "closed"]
    /\ connectedUsers' = connectedUsers
    /\ outbox' = << Event("user_offline", Connected \ {h}, sockets[h].userId, NoMessage,
                          "", {}),
                    Event("online_users", Connected \ {h}, "", NoMessage, "",
                          DOMAIN connectedUsers) >>
    /\ ops' = ops + 1
    /\ UNCHANGED <<build, messages, inflight, history>>

\* socket.on("disconnect")
Disconnect(h) ==
    /\ ops < MaxOps
    /\ h \in Connected
    /\ LET userId == sockets[h].userId
           registry == MapDelete(connectedUsers, userId)
       IN  /\ sockets' = [sockets EXCEPT ![h].state = "closed"]
           /\ connectedUsers' = registry
           /\ outbox' = << Event("user_offline", Connected \ {h}, userId, NoMessage, "", {}),
                           Event("online_users", Connected \ {h}, "", NoMessage, "",
                                 DOMAIN registry) >>
    /\ ops' = ops + 1
    /\ UNCHANGED <<build, messages, inflight, history>>

\* socket.on("typing")
Typing(h, recipientId) ==
    /\ ops < MaxOps
    /\ h \in Connected
    /\ LET recipientSocketId == MapGet(connectedUsers, recipientId)
       IN  /\ outbox' = IF recipientSocketId # NoSocket
                        THEN << EmitTo(recipientSocketId, "user_typing", sockets[h].userId,
                                       NoMessage, "") >>
                        ELSE <<>>
    /\ ops' = ops + 1
    /\ UNCHANGED <<build, sockets, connectedUsers, messages, inflight, history>>


----------------------------------------------------------------------------
(* The Message collection *)

\* a Message document; _id is its position in the collection, createdAt is in
\* milliseconds
Message(id, conversationId, sender, recipientId, text, createdAt) ==
    [id |-> id, conversationId |-> conversationId, sender |-> sender,
     recipients |-> <<recipientId>>, text |-> text, deliveredTo |-> {}, readBy |-> {},
     createdAt |-> createdAt]

\* createdAt of the newest document of the collection
LastCreatedAt ==
    IF messages = <<>> THEN 0
    ELSE CHOOSE c \in { messages[i].createdAt : i \in DOMAIN messages } :
            \A i \in DOMAIN messages : messages[i].createdAt <= c

\* the readings of the millisecond clock a new document can get: the clock never
\* runs backwards, and it need not have advanced since the last document
Now == {LastCreatedAt, LastCreatedAt + 1} \ {0}

\* what the Message schema (models/Message.js) lets the store persist: the store
\* puts no constraint on a message beyond its id
SchemaAccepts(doc) == TRUE

\* Message.create / msg.save: the collection with the new document appended
MessageCreate(conversationId, sender, recipientId, text, createdAt) ==
    Append(messages, Message(Len(messages) + 1, conversationId, sender, recipientId, text,
                             createdAt))

\* the write of task t's document succeeds: the store is up and the schema accepts it
Persists(t, ok) ==
    ok /\ SchemaAccepts(Message(Len(messages) + 1, t.conversationId, t.userId,
                                t.recipientId, t.text, LastCreatedAt + 1))

\* an update that is never written
AddDeliveredToNobody(id, recipientId) == messages

\* an update that records the sender of the message instead of the recipient
AddDeliveredToSender(id, recipientId) ==
    [messages EXCEPT ![id].deliveredTo = @ \cup {messages[id].sender}]

\* an update that takes a delivered message for a read one
AddDeliveredToAndReadBy(id, recipientId) ==
    [messages EXCEPT ![id].deliveredTo = @ \cup {recipientId},
                     ![id].readBy = @ \cup {recipientId}]

\* Message.findByIdAndUpdate(id, { $addToSet: { deliveredTo: recipientId } })
AddDeliveredTo(id, recipientId) ==
    [messages EXCEPT ![id].deliveredTo = @ \cup {recipientId}]

\* a filter that leaves out the readBy clause
UnreadFilterIgnoresReadBy(m, conversationId, senderId, userId) ==
    /\ m.conversationId = conversationId
    /\ m.sender = senderId

\* a filter that leaves out the sender clause
UnreadFilterAnySender(m, conversationId, senderId, userId) ==
    /\ m.conversationId = conversationId
    /\ userId \notin m.readBy

\* the filter { conversationId, sender: senderId, readBy: { $ne: userId } }
UnreadFilter(m, conversationId, senderId, userId) ==
    /\ m.conversationId = conversationId
    /\ m.sender = senderId
    /\ userId \notin m.readBy

\* a count of the messages of the sender in the conversation, read or not
MatchedCount(conversationId, senderId, userId) ==
    Cardinality({ i \in DOMAIN messages :
                    /\ messages[i].conversationId = conversationId
                    /\ messages[i].sender = senderId })

\* result.modifiedCount of the updateMany below
ModifiedCount(conversationId, senderId, userId) ==
    Cardinality({ i \in DOMAIN messages :
                    UnreadFilter(messages[i], conversationId, senderId, userId) })

\* an update that marks the messages read in the name of the sender id of the payload
AddReadByAsSender(conversationId, senderId, userId) ==
    [ i \in DOMAIN messages |->
        IF UnreadFilter(messages[i], conversationId, senderId, userId)
        THEN [messages[i] EXCEPT !.readBy = @ \cup {senderId}]
        ELSE messages[i] ]

\* an update that writes readBy with $set instead of $addToSet
AddReadByOverwrites(conversationId, senderId, userId) ==
    [ i \in DOMAIN messages |->
        IF UnreadFilter(messages[i], conversationId, senderId, userId)
        THEN [messages[i] EXCEPT !.readBy = {userId}]
        ELSE messages[i] ]

\* Message.updateMany(filter, { $addToSet: { readBy: userId } })
AddReadBy(conversationId, senderId, userId) ==
    [ i \in DOMAIN messages |->
        IF UnreadFilter(messages[i], conversationId, senderId, userId)
        THEN [messages[i] EXCEPT !.readBy = @ \cup {userId}]
        ELSE messages[i] ]

\* a sort that returns the oldest message first
RECURSIVE OldestFirst(_)
OldestFirst(ids) ==
    IF ids = {} THEN { <<>> }
    ELSE UNION { { <<i>> \o rest : rest \in OldestFirst(ids \ {i}) } :
                 i \in { x \in ids :
                           \A y \in ids : messages[x].createdAt <= messages[y].createdAt } }

\* .sort({ createdAt: -1 }): the orders the store can return a set of messages in,
\* newest first; it returns documents of equal createdAt in any order
RECURSIVE NewestFirst(_)
NewestFirst(ids) ==
    IF ids = {} THEN { <<>> }
    ELSE UNION { { <<i>> \o rest : rest \in NewestFirst(ids \ {i}) } :
                 i \in { x \in ids :
                           \A y \in ids : messages[y].createdAt <= messages[x].createdAt } }

\* .populate("sender", ...): FALSE when the sender is no User document (sender is null)
SenderPopulated(id) == messages[id].sender \in Users

\* history with `what` recorded for message id
Record(h, id, what) == [h EXCEPT ![id] = Append(@, what)]

----------------------------------------------------------------------------
(* Suspended handlers *)

NoText == Text(0, 0, 0)

\* the place of the newest pending event of a socket among its pending events, 0
\* when none is pending
LastSeq(sock) ==
    LET own == { u.seq : u \in { v \in inflight : v.sock = sock } }
    IN  IF own = {} THEN 0 ELSE CHOOSE m \in own : \A n \in own : n <= m

\* a handler invocation waiting at the await named by pc; input is the text the
\* client sent, text the text the handler hands to the store.  A socket delivers
\* the events of its client in the order they were emitted: seq orders the pending
\* invocations of one socket by the arrival of their events (0 for a request);
\* found holds the ids of the documents a query of the handler returned
Task(op, pc, sock, userId, recipientId, input, text, conversationId, messageId, count) ==
    [op |-> op, pc |-> pc, sock |-> sock, userId |-> userId, recipientId |-> recipientId,
     input |-> input, text |-> text, conversationId |-> conversationId,
     messageId |-> messageId, count |-> count,
     seq |-> IF sock = NoSocket THEN 0 ELSE LastSeq(sock) + 1, found |-> <<>>]

\* sockets whose events the model emits: open sockets that carry a user id
Senders == { h \in Connected : sockets[h].userId \in Users }

\* recipientId values clients put in send_message
RecipientIds == Ids \cup {""}

----------------------------------------------------------------------------
(* socket.on("send_message") *)

\* build 1: if (!recipientId || !data.text?.trim()) return;
\* build 2: the two message_error returns
SendMessageError(recipientId, text) ==
    IF build = 1
    THEN IF ~Truthy(recipientId) \/ ~TextTruthy(Trim(text)) THEN "ignored" ELSE "ok"
    ELSE IF ~Truthy(recipientId) \/ ~TextTruthy(text) THEN "Invalid data"
         ELSE IF Length(text) > messageLength THEN "Message too long"
         ELSE "ok"

\* the text handed to Message.create
SendMessageText(text) == IF build = 1 THEN Trim(text) ELSE text

\* the handler up to `await Message.create`
SendMessage(h, recipientId, text) ==
    /\ ops < MaxOps
    /\ h \in Senders
    /\ LET senderId == sockets[h].userId
           error == SendMessageError(recipientId, text)
       IN  /\ IF error = "ok"
              THEN /\ inflight' = inflight \cup
                         { Task("send_message", "create", h, senderId, recipientId, text,
                                SendMessageText(text),
                                ConversationId(senderId, recipientId), NoMessage, 0) }
                   /\ outbox' = <<>>
              ELSE /\ inflight' = inflight
                   /\ outbox' = IF error = "ignored" THEN <<>>
                                ELSE << EmitTo(h, "message_error", senderId, NoMessage, "") >>
    /\ ops' = ops + 1
    /\ UNCHANGED <<build, sockets, connectedUsers, messages, history>>

\* Message.create settles, createdAt being the reading of the clock; on success the
\* handler goes on to `await Message.findById`
SendMessageCreate(t, ok, createdAt) ==
    /\ t \in inflight
    /\ createdAt \in Now
    /\ t.op = "send_message"
    /\ t.pc = "create"
    /\ IF Persists(t, ok)
       THEN /\ messages' = MessageCreate(t.conversationId, t.userId, t.recipientId,
                                         t.text, createdAt)
            /\ history' = Append(history, <<"send_message">>)
            /\ inflight' = (inflight \ {t}) \cup
                  { [t EXCEPT !.pc = "findById", !.messageId = Len(messages) + 1] }
            /\ outbox' = <<>>
       ELSE /\ messages' = messages
            /\ history' = history
            /\ inflight' = inflight \ {t}
            /\ outbox' = << EmitTo(t.sock, "message_error", t.userId, NoMessage, "") >>
    /\ UNCHANGED <<build, sockets, connectedUsers, ops>>

\* Message.findById settles; on success: message_sent, registry lookup, new_message,
\* and the handler goes on to `await Message.findByIdAndUpdate`
SendMessageFindById(t, ok) ==
    /\ t \in inflight
    /\ t.op = "send_message"
    /\ t.pc = "findById"
    /\ LET recipientSocketId == MapGet(connectedUsers, t.recipientId)
       IN  IF ok /\ SenderPopulated(t.messageId)
           THEN IF recipientSocketId # NoSocket
                THEN /\ inflight' = (inflight \ {t}) \cup
                                        { [t EXCEPT !.pc = "findByIdAndUpdate"] }
                     /\ outbox' = << EmitTo(t.sock, "message_sent", t.userId, t.messageId,
                                            t.conversationId),
                                     EmitTo(recipientSocketId, "new_message", t.userId,
                                            t.messageId, t.conversationId) >>
                     /\ history' = Record(Record(history, t.messageId, "message_sent"),
                                          t.messageId, "new_message")
                ELSE /\ inflight' = inflight \ {t}
                     /\ outbox' = << EmitTo(t.sock, "message_sent", t.userId, t.messageId,
                                            t.conversationId) >>
                     /\ history' = Record(history, t.messageId, "message_sent")
           ELSE /\ inflight' = inflight \ {t}
                /\ outbox' = << EmitTo(t.sock, "message_error", t.userId, t.messageId, "") >>
                /\ history' = Record(history, t.messageId, "message_error")
    /\ UNCHANGED <<build, sockets, connectedUsers, messages, ops>>

\* Message.findByIdAndUpdate settles; on success: message_delivered
SendMessageUpdate(t, ok) ==
    /\ t \in inflight
    /\ t.op = "send_message"
    /\ t.pc = "findByIdAndUpdate"
    /\ IF ok
       THEN /\ messages' = AddDeliveredTo(t.messageId, t.recipientId)
            /\ outbox' = << EmitTo(t.sock, "message_delivered", t.userId, t.messageId, "") >>
            /\ history' = Record(Record(history, t.messageId, "deliveredTo"),
                                 t.messageId, "message_delivered")
       ELSE /\ messages' = messages
            /\ outbox' = << EmitTo(t.sock, "message_error", t.userId, t.messageId, "") >>
            /\ history' = Record(history, t.messageId, "message_error")
    /\ inflight' = inflight \ {t}
    /\ UNCHANGED <<build, sockets, connectedUsers, ops>>

----------------------------------------------------------------------------
(* socket.on("mark_read") *)

\* the handler up to `await Message.updateMany`
MarkRead(h, conversationId, senderId) ==
    /\ ops < MaxOps
    /\ h \in Senders
    /\ inflight' = inflight \cup
          { Task("mark_read", "updateMany", h, sockets[h].userId, senderId, NoText, NoText,
                 conversationId, NoMessage, 0) }
    /\ outbox' = <<>>
    /\ ops' = ops + 1
    /\ UNCHANGED <<build, sockets, connectedUsers, messages, history>>

\* the store applies the updateMany, or fails (the catch only logs)
MarkReadUpdateMany(t, ok) ==
    /\ t \in inflight
    /\ t.op = "mark_read"
    /\ t.pc = "updateMany"
    /\ IF ok
       THEN /\ messages' = AddReadBy(t.conversationId, t.recipientId, t.userId)
            /\ inflight' = (inflight \ {t}) \cup
                  { [t EXCEPT !.pc = "modifiedCount",
                              !.count = ModifiedCount(t.conversationId, t.recipientId,
                                                      t.userId)] }
       ELSE /\ messages' = messages
            /\ inflight' = inflight \ {t}
    /\ outbox' = <<>>
    /\ UNCHANGED <<build, sockets, connectedUsers, history, ops>>

\* a handler that notifies the sender's socket whatever the count
MarkReadNotifyAlways(t) ==
    /\ t \in inflight
    /\ t.op = "mark_read"
    /\ t.pc = "modifiedCount"
    /\ LET senderSocketId == MapGet(connectedUsers, t.recipientId)
       IN  /\ outbox' = IF senderSocketId # NoSocket
                        THEN << EmitTo(senderSocketId, "messages_read", t.userId, NoMessage,
                                       t.conversationId) >>
                        ELSE <<>>
    /\ inflight' = inflight \ {t}
    /\ UNCHANGED <<build, sockets, connectedUsers, messages, history, ops>>

\* the handler resumes: if (result.modifiedCount > 0) notify the sender's socket
MarkReadNotify(t) ==
    /\ t \in inflight
    /\ t.op = "mark_read"
    /\ t.pc = "modifiedCount"
    /\ LET senderSocketId == MapGet(connectedUsers, t.recipientId)
           notify == t.count > 0 /\ senderSocketId # NoSocket
       IN  /\ outbox' = IF notify
                        THEN << EmitTo(senderSocketId, "messages_read", t.userId, NoMessage,
                                       t.conversationId) >>
                        ELSE <<>>
    /\ inflight' = inflight \ {t}
    /\ UNCHANGED <<build, sockets, connectedUsers, messages, history, ops>>

----------------------------------------------------------------------------
(* Request/response surface *)

\* an HTTP response
Respond(status, userId, messageId, conversationId) ==
    Event("response", {}, userId, messageId, conversationId, {status})

\* app.set("io", io) ran: only build 1 has the call
AppIo == build = 1

\* GET /conversations/user/:username (build 1: server.js, build 2: the messages
\* router), up to `await Message.find`; ok: User.findOne did not fail
GetConversation(userId, username, ok) ==
    /\ ops < MaxOps
    /\ userId \in Users
    /\ LET otherId == FindOneByUsername(username)
       IN  /\ IF ok /\ otherId # Undefined
              THEN /\ inflight' = inflight \cup
                         { Task("GET conversation", "find", NoSocket, userId, otherId,
                                NoText, NoText, ConversationId(userId, otherId),
                                NoMessage, 0) }
                   /\ outbox' = <<>>
              ELSE /\ inflight' = inflight
                   /\ outbox' = << Respond(IF ok THEN 404 ELSE 500, userId, NoMessage, "") >>
    /\ ops' = ops + 1
    /\ UNCHANGED <<build, sockets, connectedUsers, messages, history>>

\* a sequence in the opposite order
Reverse(seq) == [n \in 1..Len(seq) |-> seq[Len(seq) + 1 - n]]

\* .sort({ createdAt: 1 }): the orders the store can return a set of messages in,
\* oldest first
CreatedAtAscending(ids) == { Reverse(sorted) : sorted \in NewestFirst(ids) }

\* the filter { conversationId }
ConversationMessages(conversationId) ==
    { i \in DOMAIN messages : messages[i].conversationId = conversationId }

\* the router's filter { $or: [{ sender: myId, recipients: tid },
\*                             { sender: tid, recipients: myId }] }
RouterConversationMessages(myId, tid) ==
    { i \in DOMAIN messages :
        \/ messages[i].sender = myId /\ messages[i].recipients[1] = tid
        \/ messages[i].sender = tid /\ messages[i].recipients[1] = myId }

\* the messages of a response, one entry per id of the sequence
RECURSIVE MessageEntries(_)
MessageEntries(ids) ==
    IF ids = <<>> THEN <<>>
    ELSE << Event("message", {}, messages[Head(ids)].sender, Head(ids),
                  messages[Head(ids)].conversationId, {}) >>
         \o MessageEntries(Tail(ids))

\* messages.map(...) reads m.sender._id: it throws when a sender was not populated
FormatThrows(ids) == \E n \in DOMAIN ids : ~SenderPopulated(ids[n])

\* Message.find settles: build 1 formats the messages found and goes on to
\* `await Message.updateMany`, the router of build 2 responds with the messages
GetConversationFind(t, ok) ==
    /\ t \in inflight
    /\ t.op = "GET conversation"
    /\ t.pc = "find"
    /\ IF build = 1
       THEN \E found \in CreatedAtAscending(ConversationMessages(t.conversationId)) :
               IF ok /\ ~FormatThrows(found)
               THEN /\ inflight' = (inflight \ {t}) \cup
                          { [t EXCEPT !.pc = "updateMany", !.found = found] }
                    /\ outbox' = <<>>
               ELSE /\ inflight' = inflight \ {t}
                    /\ outbox' = << Respond(500, t.userId, NoMessage, t.conversationId) >>
       ELSE \E found \in CreatedAtAscending(
                            RouterConversationMessages(t.userId, t.recipientId)) :
               /\ inflight' = inflight \ {t}
               /\ outbox' = IF ok
                            THEN << Respond(200, t.userId, NoMessage, t.conversationId) >>
                                 \o MessageEntries(found)
                            ELSE << Respond(500, t.userId, NoMessage, t.conversationId) >>
    /\ UNCHANGED <<build, sockets, connectedUsers, messages, history, ops>>

\* build 1: the updateMany that marks the counterpart's messages read settles and
\* the handler responds with the messages it found before
GetConversationUpdateMany(t, ok) ==
    /\ t \in inflight
    /\ t.op = "GET conversation"
    /\ t.pc = "updateMany"
    /\ messages' = IF ok THEN AddReadBy(t.conversationId, t.recipientId, t.userId)
                   ELSE messages
    /\ inflight' = inflight \ {t}
    /\ outbox' = IF ok
                 THEN << Respond(200, t.userId, NoMessage, t.conversationId) >>
                      \o MessageEntries(t.found)
                 ELSE << Respond(500, t.userId, NoMessage, t.conversationId) >>
    /\ UNCHANGED <<build, sockets, connectedUsers, history, ops>>

\* GET /api/messages/conversation/:userId (build 2, server.js) up to
\* `await Message.find`: the handler looks no user up
GetMessagesConversation(userId, otherId) ==
    /\ ops < MaxOps
    /\ build = 2
    /\ userId \in Users
    /\ inflight' = inflight \cup
          { Task("GET messages conversation", "find", NoSocket, userId, otherId,
                 NoText, NoText, ConversationId(userId, otherId), NoMessage, 0) }
    /\ outbox' = <<>>
    /\ ops' = ops + 1
    /\ UNCHANGED <<build, sockets, connectedUsers, messages, history>>

\* Message.find settles and the handler responds with the messages of the
\* conversation id, or with 500
GetMessagesConversationFind(t, ok) ==
    /\ t \in inflight
    /\ t.op = "GET messages conversation"
    /\ t.pc = "find"
    /\ \E found \in CreatedAtAscending(ConversationMessages(t.conversationId)) :
          outbox' = IF ok /\ ~FormatThrows(found)
                    THEN << Respond(200, t.userId, NoMessage, t.conversationId) >>
                         \o MessageEntries(found)
                    ELSE << Respond(500, t.userId, NoMessage, t.conversationId) >>
    /\ inflight' = inflight \ {t}
    /\ UNCHANGED <<build, sockets, connectedUsers, messages, history, ops>>

\* POST /conversations/user/:username/messages up to `await Message.create` (build 1)
\* or `await msg.save` (the router, build 2); ok: User.findOne did not fail.
\* Build 1 answers 400 to a text that is empty after trim; the router checks nothing.
PostMessages(userId, username, text, ok) ==
    /\ ops < MaxOps
    /\ userId \in Users
    /\ LET toId == FindOneByUsername(username)
           result == IF build = 1 /\ ~TextTruthy(Trim(text)) THEN "Text is required"
                     ELSE IF ~ok THEN "findOne failed"
                     ELSE IF toId = Undefined THEN "User not found"
                     ELSE "create"
       IN  /\ IF result = "create"
              THEN /\ inflight' = inflight \cup
                         { Task("POST messages", "create", NoSocket, userId, toId, text,
                                IF build = 1 THEN Trim(text) ELSE text,
                                IF build = 1 THEN ConversationId(userId, toId)
                                ELSE RouterConversationId(userId, toId),
                                NoMessage, 0) }
                   /\ outbox' = <<>>
              ELSE /\ inflight' = inflight
                   /\ outbox' = << Respond(CASE result = "Text is required" -> 400
                                             [] result = "User not found" -> 404
                                             [] OTHER -> 500,
                                           userId, NoMessage, "") >>
    /\ ops' = ops + 1
    /\ UNCHANGED <<build, sockets, connectedUsers, messages, history>>

\* Message.create / msg.save settles, createdAt being the reading of the clock: 500,
\* or on to `await Message.findById` (build 1),
\* `await Notification.create` (router)
PostMessagesCreate(t, ok, createdAt) ==
    /\ t \in inflight
    /\ createdAt \in Now
    /\ t.op = "POST messages"
    /\ t.pc = "create"
    /\ IF Persists(t, ok)
       THEN /\ messages' = MessageCreate(t.conversationId, t.userId, t.recipientId,
                                         t.text, createdAt)
            /\ history' = Append(history, <<"POST messages">>)
            /\ inflight' = (inflight \ {t}) \cup
                  { [t EXCEPT !.pc = IF build = 1 THEN "findById" ELSE "Notification",
                              !.messageId = Len(messages) + 1] }
            /\ outbox' = <<>>
       ELSE /\ messages' = messages
            /\ history' = history
            /\ inflight' = inflight \ {t}
            /\ outbox' = << Respond(500, t.userId, NoMessage, "") >>
    /\ UNCHANGED <<build, sockets, connectedUsers, ops>>

\* the socket the router's Array.from(io.sockets.sockets.values()).find() yields
FirstSocketOf(userId) ==
    LET own == { h \in Connected : sockets[h].userId = userId }
    IN  IF own = {} THEN NoSocket ELSE CHOOSE h \in own : \A g \in own : h <= g

\* the last await settles and the handler pushes new_message and responds:
\* build 1 after Message.findById, the router after Notification.create (whose
\* failure it swallows)
PostMessagesPush(t, ok) ==
    /\ t \in inflight
    /\ t.op = "POST messages"
    /\ t.pc \in {"findById", "Notification"}
    /\ LET receiverSocketId ==
               IF build = 1 THEN MapGet(connectedUsers, t.recipientId)
               ELSE IF AppIo THEN FirstSocketOf(t.recipientId) ELSE NoSocket
           pushed == receiverSocketId # NoSocket
           push == IF pushed
                   THEN << EmitTo(receiverSocketId, "new_message", t.userId, t.messageId,
                                  t.conversationId) >>
                   ELSE <<>>
           notification == IF ok THEN << Event("Notification", {}, t.recipientId,
                                                 t.messageId, "", {}) >>
                           ELSE <<>>
           response == IF build = 2 THEN 200 ELSE IF ok THEN 201 ELSE 500
       IN  /\ outbox' = (IF build = 2 THEN notification \o push
                         ELSE IF ok THEN push ELSE <<>>)
                        \o << Respond(response, t.userId, t.messageId, t.conversationId) >>
           /\ history' = IF pushed /\ response # 500
                         THEN Record(history, t.messageId, "new_message")
                         ELSE history
    /\ inflight' = inflight \ {t}
    /\ UNCHANGED <<build, sockets, connectedUsers, messages, ops>>

----------------------------------------------------------------------------
(* Conversation list: GET /conversations (build 1), GET /api/messages/conversations *)
(* (build 2), GET /api/conversations (messages router, build 2)                     *)

\* the $or filter: messages the user sent or received
Involved(userId) ==
    { i \in DOMAIN messages :
        messages[i].sender = userId \/ messages[i].recipients[1] = userId }

\* the loop over the sorted messages with map.has / map.set (and the $group with
\* $first of the router): the first message met of every conversation id, in the
\* order met
RECURSIVE ScanConversations(_, _)
ScanConversations(ids, kept) ==
    IF ids = <<>> THEN kept
    ELSE IF \E n \in DOMAIN kept :
               messages[kept[n]].conversationId = messages[Head(ids)].conversationId
         THEN ScanConversations(Tail(ids), kept)
         ELSE ScanConversations(Tail(ids), Append(kept, Head(ids)))

\* the newest message of each conversation of the user, newest conversation first,
\* for every order the store can return
LatestMessages(userId) ==
    { ScanConversations(sorted, <<>>) : sorted \in NewestFirst(Involved(userId)) }

\* populate() of the server routes: the other user of message i for the viewer,
\* Undefined when that id is the _id of no User document
PopulatedOther(i, userId) ==
    LET otherId == IF messages[i].sender = userId THEN messages[i].recipients[1]
                   ELSE messages[i].sender
    IN  IF otherId \in Users THEN otherId ELSE Undefined

\* msg.sender._id or otherUser._id throws a TypeError for message i
PopulateThrows(i, userId) ==
    messages[i].sender \notin Users \/ PopulatedOther(i, userId) = Undefined

\* the router: User.find({ _id: { $in: otherIds } })[0] for the sender and the
\* recipients of message i without the viewer, Undefined when there is none
RouterOther(i, userId) ==
    LET otherIds == ({messages[i].sender, messages[i].recipients[1]} \ {userId}) \cap Users
    IN  IF otherIds = {} THEN Undefined ELSE CHOOSE id \in otherIds : TRUE

\* countDocuments({ conversationId, sender: { $ne: me }, readBy: { $ne: me } })
UnreadCount(conversationId, userId) ==
    Cardinality({ i \in DOMAIN messages :
                    /\ messages[i].conversationId = conversationId
                    /\ messages[i].sender # userId
                    /\ userId \notin messages[i].readBy })

\* one entry of the list a server route responds with
ServerEntry(i, userId) ==
    Event("conversation", {}, PopulatedOther(i, userId), i, messages[i].conversationId,
          {UnreadCount(messages[i].conversationId, userId)})

\* one entry of the list the router responds with (it reports no unread count)
RouterEntry(i, userId) ==
    Event("conversation", {}, RouterOther(i, userId), i, messages[i].conversationId, {})

\* the entries of a sequence of message ids, made by entry(i)
RECURSIVE Entries(_, _, _)
Entries(ids, userId, router) ==
    IF ids = <<>> THEN <<>>
    ELSE << IF router THEN RouterEntry(Head(ids), userId)
            ELSE ServerEntry(Head(ids), userId) >>
         \o Entries(Tail(ids), userId, router)

\* the list routes a build serves
ListRoutes == IF build = 1 THEN {"GET conversations"}
              ELSE {"GET conversations", "router GET conversations"}

\* a list request up to `await Message.find` / `await Message.aggregate`
GetConversations(userId, route) ==
    /\ ops < MaxOps
    /\ userId \in Users
    /\ route \in ListRoutes
    /\ inflight' = inflight \cup
          { Task(route, "find", NoSocket, userId, "", NoText, NoText, "", NoMessage, 0) }
    /\ outbox' = <<>>
    /\ ops' = ops + 1
    /\ UNCHANGED <<build, sockets, connectedUsers, messages, history>>

\* the query settles and the handler responds: a server route with one entry per
\* conversation, or 500 when an entry cannot be populated; the router with the
\* entries whose other user it finds
GetConversationsFind(t, ok) ==
    /\ t \in inflight
    /\ t.op \in {"GET conversations", "router GET conversations"}
    /\ t.pc = "find"
    /\ \E latest \in LatestMessages(t.userId) :
          LET router == t.op = "router GET conversations"
              throws == ~router
                        /\ \E n \in DOMAIN latest : PopulateThrows(latest[n], t.userId)
              found(i) == RouterOther(i, t.userId) # Undefined
              listed == IF router THEN SelectSeq(latest, found) ELSE latest
          IN  outbox' = IF ok /\ ~throws
                        THEN << Respond(200, t.userId, NoMessage, "") >>
                             \o Entries(listed, t.userId, router)
                        ELSE << Respond(500, t.userId, NoMessage, "") >>
    /\ inflight' = inflight \ {t}
    /\ UNCHANGED <<build, sockets, connectedUsers, messages, history, ops>>

\* GET /api/messages/unread/count up to `await Message.countDocuments`: build 1 runs
\* the route of server.js; in build 2 the messages router is mounted on /api before
\* the route of server.js is registered, so the router answers
GetUnreadCount(userId) ==
    /\ ops < MaxOps
    /\ userId \in Users
    /\ inflight' = inflight \cup
          { Task(IF build = 1 THEN "GET unread count" ELSE "router GET unread count",
                 "countDocuments", NoSocket, userId, "", NoText, NoText, "", NoMessage, 0) }
    /\ outbox' = <<>>
    /\ ops' = ops + 1
    /\ UNCHANGED <<build, sockets, connectedUsers, messages, history>>

\* server.js: countDocuments({ recipients: me, sender: { $ne: me }, readBy: { $ne: me } })
ServerUnreadTotal(userId) ==
    Cardinality({ i \in DOMAIN messages :
                    /\ messages[i].recipients[1] = userId
                    /\ messages[i].sender # userId
                    /\ userId \notin messages[i].readBy })

\* the router: countDocuments({ recipients: myId, readBy: { $ne: myId } })
RouterUnreadTotal(userId) ==
    Cardinality({ i \in DOMAIN messages :
                    /\ messages[i].recipients[1] = userId
                    /\ userId \notin messages[i].readBy })

\* the count settles and the handler responds with it, or with 500
GetUnreadCountSettle(t, ok) ==
    /\ t \in inflight
    /\ t.op \in {"GET unread count", "router GET unread count"}
    /\ t.pc = "countDocuments"
    /\ LET count == IF t.op = "GET unread count" THEN ServerUnreadTotal(t.userId)
                    ELSE RouterUnreadTotal(t.userId)
       IN  outbox' = IF ok
                     THEN << Respond(200, t.userId, NoMessage, ""),
                             Event("count", {}, t.userId, NoMessage, "", {count}) >>
                     ELSE << Respond(500, t.userId, NoMessage, "") >>
    /\ inflight' = inflight \ {t}
    /\ UNCHANGED <<build, sockets, connectedUsers, messages, history, ops>>

----------------------------------------------------------------------------

Builds == {1, 2}

Init ==
    /\ build \in Builds
    /\ sockets = <<>>
    /\ connectedUsers = <<>>
    /\ messages = <<>>
    /\ inflight = {}
    /\ outbox = <<>>
    /\ history = <<>>
    /\ ops = 0

\* Clients of the full specification: handshakes with and without a token, messages
\* of u1 to u2, one well-formed text, mark_read on the conversation of the two
\* users, requests that name an existing user, messages created at least a
\* millisecond apart
SessionTokens == { NoToken } \cup { SubToken(u) : u \in Users }
PlainTexts == { Text(1, 2, 1) }
KnownUsernames == { "alice", "bob" }
SharedConversationIds == { ConversationId("u1", "u2") }

\* every operation that writes the registry or the log, or pushes to a socket
Next ==
    \/ \E token \in SessionTokens : HandshakeRejected(token)
    \/ \E token \in SessionTokens : Connection(token)
    \/ \E h \in Handles : Disconnect(h)
    \/ \E h \in Handles, recipientId \in Users : Typing(h, recipientId)
    \/ \E h \in Handles, text \in PlainTexts :
          sockets[h].userId = "u1" /\ SendMessage(h, "u2", text)
    \/ \E t \in inflight, ok \in BOOLEAN : SendMessageCreate(t, ok, LastCreatedAt + 1)
    \/ \E t \in inflight, ok \in BOOLEAN : SendMessageFindById(t, ok)
    \/ \E t \in inflight, ok \in BOOLEAN : SendMessageUpdate(t, ok)
    \/ \E h \in Handles, conversationId \in SharedConversationIds, senderId \in Users :
          MarkRead(h, conversationId, senderId)
    \/ \E t \in inflight, ok \in BOOLEAN : MarkReadUpdateMany(t, ok)
    \/ \E t \in inflight : MarkReadNotify(t)
    \/ \E userId \in Users, username \in KnownUsernames :
          FindOneByUsername(username) # userId /\ GetConversation(userId, username, TRUE)
    \/ \E t \in inflight, ok \in BOOLEAN : GetConversationFind(t, ok)
    \/ \E t \in inflight, ok \in BOOLEAN : GetConversationUpdateMany(t, ok)
    \/ \E text \in PlainTexts : PostMessages("u1", "bob", text, TRUE)
    \/ \E t \in inflight, ok \in BOOLEAN : PostMessagesCreate(t, ok, LastCreatedAt + 1)
    \/ \E t \in inflight, ok \in BOOLEAN : PostMessagesPush(t, ok)

Spec == Init /\ [][Next]_vars

\* the connection registry under every kind of handshake
NextRegistry ==
    \/ \E token \in Tokens : HandshakeRejected(token)
    \/ \E token \in Tokens : Connection(token)
    \/ \E h \in Handles : Disconnect(h)
    \/ \E h \in Handles, recipientId \in Ids : Typing(h, recipientId)

SpecRegistry == Init /\ [][NextRegistry]_vars

\* no send is under way and none has persisted a message
FirstSend == inflight = {} /\ messages = <<>>

\* the send pipeline under every recipient id and text a client can send, up to
\* the end of the first send that persists; sockets open and close and users list
\* their conversations meanwhile
NextSend ==
    \/ \E token \in { SubToken(u) : u \in Users } : Connection(token)
    \/ \E h \in Handles : Disconnect(h)
    \/ \E h \in Handles, recipientId \in RecipientIds, text \in Texts :
          FirstSend /\ SendMessage(h, recipientId, text)
    \/ \E t \in inflight, ok \in BOOLEAN : SendMessageCreate(t, ok, LastCreatedAt + 1)
    \/ \E t \in inflight, ok \in BOOLEAN : SendMessageFindById(t, ok)
    \/ \E t \in inflight, ok \in BOOLEAN : SendMessageUpdate(t, ok)
    \/ \E userId \in Users, username \in Usernames, text \in Texts, ok \in BOOLEAN :
          FirstSend /\ PostMessages(userId, username, text, ok)
    \/ \E t \in inflight, ok \in BOOLEAN : PostMessagesCreate(t, ok, LastCreatedAt + 1)
    \/ \E t \in inflight, ok \in BOOLEAN : PostMessagesPush(t, ok)
    \/ \E userId \in Users, route \in ListRoutes : GetConversations(userId, route)
    \/ \E t \in inflight, ok \in BOOLEAN : GetConversationsFind(t, ok)

SpecSend == Init /\ [][NextSend]_vars

\* the conversations of a user over HTTP: u1 posts messages to u2 and to itself, the
\* store is up, and both users list their conversations; two messages can be created
\* within the same millisecond
NextList ==
    \/ \E username \in KnownUsernames, text \in PlainTexts :
          PostMessages("u1", username, text, TRUE)
    \/ \E t \in inflight, createdAt \in Now : PostMessagesCreate(t, TRUE, createdAt)
    \/ \E t \in inflight : PostMessagesPush(t, TRUE)
    \/ \E userId \in Users, route \in ListRoutes : GetConversations(userId, route)
    \/ \E t \in inflight, ok \in BOOLEAN : GetConversationsFind(t, ok)

SpecList == Init /\ [][NextList]_vars

\* the two users exchange messages over their sockets and over HTTP and fetch their
\* conversation; the store is up
NextExchange ==
    \/ \E token \in { SubToken(u) : u \in Users } : Connection(token)
    \/ \E h \in Handles, recipientId \in Users, text \in PlainTexts :
          recipientId # sockets[h].userId /\ SendMessage(h, recipientId, text)
    \/ \E t \in inflight : SendMessageCreate(t, TRUE, LastCreatedAt + 1)
    \/ \E t \in inflight : SendMessageFindById(t, TRUE)
    \/ \E t \in inflight : SendMessageUpdate(t, TRUE)
    \/ \E userId \in Users, username \in KnownUsernames, text \in PlainTexts :
          FindOneByUsername(username) # userId /\ PostMessages(userId, username, text, TRUE)
    \/ \E t \in inflight : PostMessagesCreate(t, TRUE, LastCreatedAt + 1)
    \/ \E t \in inflight : PostMessagesPush(t, TRUE)
    \/ \E userId \in Users, username \in KnownUsernames :
          FindOneByUsername(username) # userId /\ GetConversation(userId, username, TRUE)
    \/ \E t \in inflight : GetConversationFind(t, TRUE)
    \/ \E t \in inflight : GetConversationUpdateMany(t, TRUE)

SpecExchange == Init /\ [][NextExchange]_vars

\* the conversation history over HTTP: u1 posts messages to u2 and to itself, and
\* the users fetch conversations by every username and user id, known or not
NextFetch ==
    \/ \E username \in KnownUsernames, text \in PlainTexts :
          PostMessages("u1", username, text, TRUE)
    \/ \E t \in inflight : PostMessagesCreate(t, TRUE, LastCreatedAt + 1)
    \/ \E t \in inflight : PostMessagesPush(t, TRUE)
    \/ \E userId \in Users, username \in Usernames :
          GetConversation(userId, username, TRUE)
    \/ \E t \in inflight, ok \in BOOLEAN : GetConversationFind(t, ok)
    \/ \E t \in inflight, ok \in BOOLEAN : GetConversationUpdateMany(t, ok)
    \/ \E userId \in Users, otherId \in Ids : GetMessagesConversation(userId, otherId)
    \/ \E t \in inflight, ok \in BOOLEAN : GetMessagesConversationFind(t, ok)

SpecFetch == Init /\ [][NextFetch]_vars

\* the unread badge: u1 posts messages to u2 and to itself, the users fetch their
\* conversation, list their conversations on the server route and ask for their
\* unread count; the store is up except for the count
NextUnread ==
    \/ \E username \in KnownUsernames, text \in PlainTexts :
          PostMessages("u1", username, text, TRUE)
    \/ \E t \in inflight : PostMessagesCreate(t, TRUE, LastCreatedAt + 1)
    \/ \E t \in inflight : PostMessagesPush(t, TRUE)
    \/ \E userId \in Users, username \in KnownUsernames :
          FindOneByUsername(username) # userId /\ GetConversation(userId, username, TRUE)
    \/ \E t \in inflight : GetConversationFind(t, TRUE)
    \/ \E t \in inflight : GetConversationUpdateMany(t, TRUE)
    \/ \E userId \in Users : GetConversations(userId, "GET conversations")
    \/ \E t \in inflight : GetConversationsFind(t, TRUE)
    \/ \E userId \in Users : GetUnreadCount(userId)
    \/ \E t \in inflight, ok \in BOOLEAN : GetUnreadCountSettle(t, ok)

SpecUnread == Init /\ [][NextUnread]_vars

----------------------------------------------------------------------------
(* Properties of the connection registry *)

\* the handshake presented a token that verifies and carries a user id
IdentityVerified(token) ==
    /\ token.present
    /\ token.verifies
    /\ \/ Truthy(token.sub)
       \/ Truthy(token.userId)
       \/ Truthy(token.oid)
       \/ Truthy(token.id)

\* the open sockets of a user
LiveHandlesOf(userId) == { h \in Connected : sockets[h].userId = userId }

\* socket h closes in this step
Disconnects(h) == sockets[h].state = "connected" /\ sockets'[h].state = "closed"

\* C1: a disconnect of a handle that the registry does not map its user to leaves
\* the registry as it is (the entry of the user's newer connection survives)
C1_StaleDisconnectKeepsEntry ==
    [][ \A h \in Handles :
          ( /\ Disconnects(h)
            /\ sockets[h].userId \in Users
            /\ MapGet(connectedUsers, sockets[h].userId) # h )
          => connectedUsers' = connectedUsers ]_vars

\* C2: the key set of the registry is the set of users that hold an open socket
C2_PresenceIsLiveUsers ==
    \A u \in Users : u \in DOMAIN connectedUsers <=> LiveHandlesOf(u) # {}

\* the events pushed to one user's registered socket
IsPush(e) == e.ev \in {"new_message", "user_typing", "messages_read"}

\* C3: a connection of user U with handle h makes lookup(U) = h; the registry maps
\* a user only to the newest socket of that user, and every push goes to a socket
\* that no newer socket of the same user has replaced
C3_NewestHandleOnly ==
    [][ /\ Len(sockets') > Len(sockets)
           => MapGet(connectedUsers', sockets'[Len(sockets')].userId) = Len(sockets')
        /\ \A k \in DOMAIN connectedUsers' :
              /\ sockets'[connectedUsers'[k]].userId = k
              /\ \A g \in 1..Len(sockets') : sockets'[g].userId = k => g <= connectedUsers'[k]
        /\ \A i \in DOMAIN outbox' :
              IsPush(outbox'[i]) =>
                 \A h \in outbox'[i].to :
                    \A g \in 1..Len(sockets') :
                       sockets'[g].userId = sockets'[h].userId => g <= h ]_vars

\* a user's second socket is the registered one, its first is still open, and a
\* new_message has just been pushed to the second
C3_Witness ==
    /\ Len(sockets) = 2
    /\ sockets[1].userId = sockets[2].userId
    /\ sockets[1].state = "connected"
    /\ MapGet(connectedUsers, sockets[2].userId) = 2
    /\ \E i \in DOMAIN outbox : outbox[i].ev = "new_message" /\ outbox[i].to = {2}

\* C4: every socket that passed the handshake, and so every socket the registry
\* holds, presented a verified token that carries a user id; a rejected handshake
\* leaves the registry unchanged
C4_OnlyVerifiedRegistered ==
    [][ /\ \A h \in 1..Len(sockets') : IdentityVerified(sockets'[h].token)
        /\ \A k \in DOMAIN connectedUsers' :
              IdentityVerified(sockets'[connectedUsers'[k]].token)
        /\ (Len(outbox') > 0 /\ outbox'[1].ev = "connect_error")
              => connectedUsers' = connectedUsers ]_vars

----------------------------------------------------------------------------
(* Properties of the message flags *)

\* C5: the sender of a message is in neither its deliveredTo nor its readBy
C5_SenderNeverInFlags ==
    \A i \in DOMAIN messages :
        /\ messages[i].sender \notin messages[i].deliveredTo
        /\ messages[i].sender \notin messages[i].readBy

\* C6: no step removes a message, and no step takes an id out of the deliveredTo
\* or the readBy of a message
C6_FlagsAppendOnly ==
    [][ /\ Len(messages') >= Len(messages)
        /\ \A i \in DOMAIN messages :
              /\ messages[i].deliveredTo \subseteq messages'[i].deliveredTo
              /\ messages[i].readBy \subseteq messages'[i].readBy ]_vars

\* a message that was delivered and then read
C6_Witness ==
    \E i \in DOMAIN messages :
        /\ messages[i].deliveredTo # {}
        /\ messages[i].readBy # {}

----------------------------------------------------------------------------
(* Properties of the send pipeline *)

IsSend(t) == t.op \in {"send_message", "POST messages"}

\* the text is empty after trimming or longer than the configured maximum
TextInvalid(text) == ~TextTruthy(Trim(text)) \/ Length(text) > messageLength

\* no handler is still working on message id
HandlerDone(id) == \A t \in inflight : t.messageId # id

\* the labels recorded for message id
Recorded(id) == { history[id][n] : n \in DOMAIN history[id] }

\* C7: no persisted message has a recipient that is not an existing user
C7_NoMessageToUnknownRecipient ==
    \A i \in DOMAIN messages : messages[i].recipients[1] \in Users

\* C8: a send whose text is empty after trimming or longer than the maximum has
\* persisted no message
C8_InvalidTextNotPersisted ==
    \A t \in inflight : (IsSend(t) /\ TextInvalid(t.input)) => t.messageId = NoMessage

\* C9: once the send_message handler of a persisted message has finished,
\* message_sent has been emitted for the message; and message_sent names only
\* persisted messages
C9_PersistedIsAcknowledged ==
    /\ \A id \in DOMAIN history :
          (history[id][1] = "send_message" /\ HandlerDone(id))
             => "message_sent" \in Recorded(id)
    /\ \A i \in DOMAIN outbox :
          outbox[i].ev = "message_sent" => outbox[i].messageId \in DOMAIN messages

\* C10: no message_error is emitted for a send whose message has been persisted
C10_NoErrorAfterPersistence ==
    \A id \in DOMAIN history : "message_error" \notin Recorded(id)

\* the step settles the Message.create of send_message task t with a failure
CreateFails(t) ==
    /\ t.op = "send_message"
    /\ t.pc = "create"
    /\ t \notin inflight'
    /\ Len(messages') = Len(messages)

\* the events of the last step named ev
Emitted(ev) == { outbox[i] : i \in { j \in DOMAIN outbox : outbox[j].ev = ev } }

\* C11: when the Message.create of a send_message fails, the log is unchanged, the
\* handler ends, the step emits message_error to the sender's socket and emits no
\* message_sent, new_message or message_delivered
C11_FailedCreateAbortsSend ==
    [][ \A t \in inflight :
          CreateFails(t) =>
             /\ messages' = messages
             /\ history' = history
             /\ inflight' = inflight \ {t}
             /\ \E e \in Emitted("message_error")' : e.to = {t.sock}
             /\ Emitted("message_sent")' = {}
             /\ Emitted("new_message")' = {}
             /\ Emitted("message_delivered")' = {} ]_vars

\* build 1 emits message_error only from the catch: a create has just failed and
\* the log is empty
C11_Witness ==
    /\ build = 1
    /\ messages = <<>>
    /\ \E e \in Emitted("message_error") : e.messageId = NoMessage /\ e.to # {}

\* the step settles the Message.findById of send_message task t with the document:
\* message_sent goes out and the registry is looked up
LooksUp(t) ==
    /\ t.op = "send_message"
    /\ t.pc = "findById"
    /\ t \notin inflight'
    /\ \E e \in Emitted("message_sent")' : e.messageId = t.messageId

\* the step settles the Message.findByIdAndUpdate of send_message task t
UpdateSettles(t) ==
    /\ t.op = "send_message"
    /\ t.pc = "findByIdAndUpdate"
    /\ t \notin inflight'

\* the lookup step of t pushes new_message to the socket the registry holds for the
\* recipient and the handler goes on to the deliveredTo update
PushesToRegistered(t) ==
    /\ \E e \in Emitted("new_message")' :
          /\ e.to = {connectedUsers[t.recipientId]}
          /\ e.messageId = t.messageId
    /\ [t EXCEPT !.pc = "findByIdAndUpdate"] \in inflight'

\* the step adds the recipient to deliveredTo and then tells the sender's socket
RecordsDelivery(t) ==
    /\ t.recipientId \in messages'[t.messageId].deliveredTo
    /\ \E e \in Emitted("message_delivered")' :
          e.to = {t.sock} /\ e.messageId = t.messageId

\* C12 as stated: when the registry holds the recipient at the lookup, new_message is
\* pushed to the registered socket, the recipient is added to deliveredTo and the
\* sender's socket is then sent message_delivered
C12_RegisteredRecipientIsDelivered ==
    [][ \A t \in inflight :
          /\ (LooksUp(t) /\ t.recipientId \in DOMAIN connectedUsers)
                => PushesToRegistered(t)
          /\ UpdateSettles(t) => RecordsDelivery(t) ]_vars

\* C12 amended: ... the recipient is added to deliveredTo and message_delivered is
\* sent unless the deliveredTo update fails; then no message changes and no
\* message_delivered is sent
C12_DeliveredUnlessUpdateFails ==
    [][ \A t \in inflight :
          /\ (LooksUp(t) /\ t.recipientId \in DOMAIN connectedUsers)
                => PushesToRegistered(t)
          /\ UpdateSettles(t) =>
                \/ RecordsDelivery(t)
                \/ messages' = messages /\ Emitted("message_delivered")' = {} ]_vars

\* message_delivered has just been sent for a message that names its recipient in
\* deliveredTo
C12_Witness ==
    \E e \in Emitted("message_delivered") :
        /\ e.messageId \in DOMAIN messages
        /\ messages[e.messageId].recipients[1] \in messages[e.messageId].deliveredTo

\* the events of the last step that name message id
EmittedFor(ev, id) == { e \in Emitted(ev) : e.messageId = id }

----------------------------------------------------------------------------
(* Properties of read receipts *)

\* the step settles the Message.updateMany of mark_read task t
MarkSettles(t) ==
    /\ t.op = "mark_read"
    /\ t.pc = "updateMany"
    /\ t \notin inflight'

\* the messages markRead(reader, conversationId, counterpart) is to transition
\* (ids are written reader / counterpart as in the claim: for a task t the reader
\* is t.userId and the counterpart is t.recipientId)
Eligible(reader, conversationId, counterpart) ==
    { i \in DOMAIN messages :
        /\ messages[i].conversationId = conversationId
        /\ messages[i].sender = counterpart
        /\ reader \notin messages[i].readBy }

\* the log after reader was added to readBy of the messages of set ids, and nothing
\* else changed
WithReader(ids, reader) ==
    [ i \in DOMAIN messages |->
        IF i \in ids THEN [messages[i] EXCEPT !.readBy = @ \cup {reader}]
        ELSE messages[i] ]

\* C14: a mark_read whose updateMany is applied adds the reader to readBy of exactly
\* the messages of the conversation that the counterpart authored and the reader had
\* not read, changes nothing else (no other message, no deliveredTo), and the count
\* the handler goes on with is the number of those messages; an updateMany that
\* fails changes nothing
C14_MarkReadTransitionsExactlyEligible ==
    [][ \A t \in inflight :
          MarkSettles(t) =>
             LET ids == Eligible(t.userId, t.conversationId, t.recipientId)
             IN  \/ /\ messages' = WithReader(ids, t.userId)
                    /\ [t EXCEPT !.pc = "modifiedCount", !.count = Cardinality(ids)]
                          \in inflight'
                 \/ /\ messages' = messages
                    /\ inflight' = inflight \ {t} ]_vars

\* a mark_read that transitioned a message waits to notify
C14_Witness ==
    \E t \in inflight :
        /\ t.op = "mark_read"
        /\ t.pc = "modifiedCount"
        /\ t.count > 0
        /\ \E i \in DOMAIN messages :
              /\ messages[i].sender = t.recipientId
              /\ t.userId \in messages[i].readBy

\* the step ends the mark_read handler of task t after its updateMany was applied
NotifyStep(t) ==
    /\ t.op = "mark_read"
    /\ t.pc = "modifiedCount"
    /\ t \notin inflight'

\* C15: a mark_read that finds nothing eligible (as a second mark_read with the same
\* arguments does when no eligible message was persisted in between) changes no
\* message, goes on with the count 0, and a handler that goes on with the count 0
\* emits no messages_read
C15_MarkReadIdempotent ==
    [][ \A t \in inflight :
          /\ (MarkSettles(t) /\ Eligible(t.userId, t.conversationId, t.recipientId) = {})
                => /\ messages' = messages
                   /\ \A u \in inflight' \ inflight : u.count = 0
          /\ (NotifyStep(t) /\ t.count = 0) => Emitted("messages_read")' = {} ]_vars

\* a mark_read counted 0 on a conversation whose message from the counterpart
\* already names the reader in readBy
C15_Witness ==
    \E t \in inflight :
        /\ t.op = "mark_read"
        /\ t.pc = "modifiedCount"
        /\ t.count = 0
        /\ \E i \in DOMAIN messages :
              /\ messages[i].conversationId = t.conversationId
              /\ messages[i].sender = t.recipientId
              /\ t.userId \in messages[i].readBy

\* C16: the step that ends a mark_read emits messages_read, naming the conversation
\* and the reader, to the socket the registry holds for the counterpart exactly when
\* the count is positive and the registry holds the counterpart at that step;
\* otherwise it emits nothing; it changes no message; and no other step emits
\* messages_read, so a notification that was not sent is never sent later
C16_ReadReceiptIffCountedAndRegistered ==
    [][ /\ \A t \in inflight :
              NotifyStep(t) =>
                 /\ messages' = messages
                 /\ outbox' =
                       IF t.count > 0 /\ t.recipientId \in DOMAIN connectedUsers
                       THEN << Event("messages_read", {connectedUsers[t.recipientId]},
                                     t.userId, NoMessage, t.conversationId, {}) >>
                       ELSE <<>>
        /\ Emitted("messages_read")' # {}
              => \E t \in inflight : NotifyStep(t) /\ t.count > 0 ]_vars

\* a read receipt has just been sent to the counterpart's registered socket
C16_Witness ==
    \E e \in Emitted("messages_read") :
        \E k \in DOMAIN connectedUsers : e.to = {connectedUsers[k]}

\* the step ends the conversation fetch of task t with the response 200
FetchResponds(t) ==
    /\ t.op = "GET conversation"
    /\ t \notin inflight'
    /\ \E e \in Emitted("response")' : 200 \in e.keys /\ e.userId = t.userId

\* C17: when viewer V's fetch of the conversation with U has responded, every message
\* from U to V names V in readBy (V's unread count for the conversation is 0), and
\* the fetch changed no deliveredTo
C17_FetchMarksCounterpartMessagesRead ==
    [][ \A t \in inflight :
          FetchResponds(t) =>
             /\ \A i \in DOMAIN messages' :
                   ( /\ messages'[i].sender = t.recipientId
                     /\ messages'[i].recipients[1] = t.userId )
                   => t.userId \in messages'[i].readBy
             /\ \A i \in DOMAIN messages :
                   messages'[i].deliveredTo = messages[i].deliveredTo ]_vars

\* C18: when a conversation fetch by V transitions a message of U to read while the
\* registry holds U, the step sends messages_read, naming the conversation and V, to
\* U's registered socket
C18_FetchSendsReadReceipt ==
    [][ \A t \in inflight :
          ( /\ t.op = "GET conversation"
            /\ t \notin inflight'
            /\ messages' # messages
            /\ t.recipientId \in DOMAIN connectedUsers )
          => \E e \in Emitted("messages_read")' :
                /\ e.to = {connectedUsers[t.recipientId]}
                /\ e.userId = t.userId
                /\ e.conversationId = t.conversationId ]_vars

\* the step settles the updateMany of task t, a mark_read or a conversation fetch
UpdateManySettles(t) ==
    /\ t.op \in {"mark_read", "GET conversation"}
    /\ t.pc = "updateMany"
    /\ t \notin inflight'

\* the messages that gain reader in readBy in this step
NewlyReadBy(reader) ==
    { i \in DOMAIN messages : reader \in messages'[i].readBy \ messages[i].readBy }

\* the mark_read handlers that hold a count for (reader, conversation, counterpart)
CountHolders(reader, conversationId, counterpart) ==
    { t \in inflight :
        /\ t.op = "mark_read"
        /\ t.pc = "modifiedCount"
        /\ t.userId = reader
        /\ t.conversationId = conversationId
        /\ t.recipientId = counterpart }

RECURSIVE TotalCount(_)
TotalCount(tasks) ==
    IF tasks = {} THEN 0
    ELSE LET t == CHOOSE x \in tasks : TRUE
         IN  t.count + TotalCount(tasks \ {t})

\* the messages of the counterpart in the conversation that name reader in readBy
ReadMessages(reader, conversationId, counterpart) ==
    { i \in DOMAIN messages :
        /\ messages[i].conversationId = conversationId
        /\ messages[i].sender = counterpart
        /\ reader \in messages[i].readBy }

\* C19: however mark_read events and conversation fetches of one reader interleave,
\* a message gains the reader only in the step that settles the updateMany of exactly
\* one invocation of that reader; a mark_read settled there goes on with the number
\* of messages that step transitioned; the counts the handlers of one (reader,
\* conversation, counterpart) hold never add up to more than the messages read; and
\* an invocation that ends with the count 0, and any conversation fetch, emits no
\* messages_read
C19_TransitionCountedOnce ==
    [][ /\ \A r \in Users :
              NewlyReadBy(r) # {} =>
                 \E t \in inflight :
                    /\ UpdateManySettles(t)
                    /\ t.userId = r
                    /\ \A u \in inflight : UpdateManySettles(u) => u = t
        /\ \A u \in inflight' \ inflight :
              (u.op = "mark_read" /\ u.pc = "modifiedCount") =>
                 u.count = Cardinality(NewlyReadBy(u.userId))
        /\ \A t \in inflight' :
              (t.op = "mark_read" /\ t.pc = "modifiedCount") =>
                 TotalCount(CountHolders(t.userId, t.conversationId, t.recipientId)')
                    <= Cardinality(ReadMessages(t.userId, t.conversationId,
                                                t.recipientId)')
        /\ \A t \in inflight :
              ( \/ NotifyStep(t) /\ t.count = 0
                \/ t.op = "GET conversation" /\ t \notin inflight' )
              => Emitted("messages_read")' = {} ]_vars

\* a mark_read and a conversation fetch of the same reader wait at their updateMany
\* on the same conversation, which holds a message the reader has not read
C19_Witness ==
    \E t \in inflight, u \in inflight :
        /\ t.op = "mark_read" /\ t.pc = "updateMany"
        /\ u.op = "GET conversation" /\ u.pc = "updateMany"
        /\ t.userId = u.userId
        /\ t.conversationId = u.conversationId
        /\ t.recipientId = u.recipientId
        /\ Eligible(t.userId, t.conversationId, t.recipientId) # {}

----------------------------------------------------------------------------
(* Properties of the conversation list *)

\* the step ends the list request of task t with the response 200
ListResponds(t) ==
    /\ t.op \in {"GET conversations", "router GET conversations"}
    /\ t \notin inflight'
    /\ \E e \in Emitted("response")' : 200 \in e.keys /\ e.userId = t.userId

\* the entries of the list in the last step's response
ListedEntries == SelectSeq(outbox, LAMBDA e : e.ev = "conversation")

\* C20: a conversation list returned to a user has one entry for every conversation
\* id of the messages the user sent or received, and no two entries with the same
\* conversation id
C20_OneEntryPerConversation ==
    [][ \A t \in inflight :
          ListResponds(t) =>
             /\ \A m, n \in DOMAIN ListedEntries' :
                   ListedEntries'[m].conversationId = ListedEntries'[n].conversationId
                      => m = n
             /\ { ListedEntries'[n].conversationId : n \in DOMAIN ListedEntries' }
                   = { messages[i].conversationId : i \in Involved(t.userId) } ]_vars

\* the messages of a conversation id that the list of a user is built from
ConversationOf(userId, conversationId) ==
    { i \in Involved(userId) : messages[i].conversationId = conversationId }

\* C21: the entry of a conversation in a returned list shows the message of the
\* conversation with the greatest creation timestamp, and of the messages that share
\* the greatest timestamp the one with the greatest message id
C21_PreviewIsNewestMessage ==
    [][ \A t \in inflight :
          ListResponds(t) =>
             \A n \in DOMAIN ListedEntries' :
                LET e == ListedEntries'[n]
                IN  \A i \in ConversationOf(t.userId, e.conversationId) :
                       \/ messages[i].createdAt < messages[e.messageId].createdAt
                       \/ /\ messages[i].createdAt = messages[e.messageId].createdAt
                          /\ i <= e.messageId ]_vars

\* createdAt of the newest message of a conversation of a user
LastTime(userId, conversationId) ==
    LET times == { messages[i].createdAt : i \in ConversationOf(userId, conversationId) }
    IN  CHOOSE c \in times : \A d \in times : d <= c

\* C22: the entries of a returned list are in the order of the creation timestamps of
\* the newest messages of their conversations, the greatest timestamp first
C22_ListNewestConversationFirst ==
    [][ \A t \in inflight :
          ListResponds(t) =>
             \A m, n \in DOMAIN ListedEntries' :
                m < n => LastTime(t.userId, ListedEntries'[m].conversationId)
                            >= LastTime(t.userId, ListedEntries'[n].conversationId) ]_vars

\* a list with two conversations whose newest messages were created at different
\* times has been returned
C22_Witness ==
    /\ Len(ListedEntries) >= 2
    /\ messages[ListedEntries[1].messageId].createdAt
          > messages[ListedEntries[2].messageId].createdAt

\* the messages of a conversation that a user has not written and has not read
UnreadMessages(userId, conversationId) ==
    { i \in DOMAIN messages :
        /\ messages[i].conversationId = conversationId
        /\ messages[i].sender # userId
        /\ userId \notin messages[i].readBy }

\* C23: the unread count an entry of a returned list reports is the number of
\* messages of the conversation that the viewer has not written and has not read;
\* a new message leaves every unread count of its sender as it was and raises the
\* unread count of its recipient for its conversation by one
C23_UnreadCountIsUnreadMessages ==
    [][ /\ \A t \in inflight :
             ListResponds(t) =>
                \A n \in DOMAIN ListedEntries' :
                   LET e == ListedEntries'[n]
                   IN  e.keys # {} =>
                          e.keys = { Cardinality(UnreadMessages(t.userId, e.conversationId)) }
        /\ Len(messages') = Len(messages) + 1 =>
             \A new \in { messages'[Len(messages')] } :
                /\ \A c \in { messages'[i].conversationId : i \in DOMAIN messages' } :
                      Cardinality(UnreadMessages(new.sender, c)')
                         = Cardinality(UnreadMessages(new.sender, c))
                /\ Cardinality(UnreadMessages(new.recipients[1], new.conversationId)')
                      = Cardinality(UnreadMessages(new.recipients[1],
                                                   new.conversationId)) + 1 ]_vars

----------------------------------------------------------------------------
(* Properties that relate the two send paths, delivery and read state *)

\* the step ends the POST of task t with a response that reports success
PostResponds(t) ==
    /\ t.op = "POST messages"
    /\ t.messageId # NoMessage
    /\ t \notin inflight'
    /\ \E e \in Emitted("response")' :
          e.messageId = t.messageId /\ e.keys \subseteq {200, 201}

\* C24: a send over HTTP that succeeds leaves what send_message leaves for the same
\* sender, recipient and text: the message carries the conversation id and the text
\* send_message stores, and when the registry holds the recipient, new_message is
\* pushed to the registered socket and the recipient is in deliveredTo
C24_PostLeavesWhatSendMessageLeaves ==
    [][ \A t \in inflight :
          PostResponds(t) =>
             /\ messages'[t.messageId].conversationId
                   = ConversationId(t.userId, t.recipientId)
             /\ messages'[t.messageId].text = SendMessageText(t.input)
             /\ t.recipientId \in DOMAIN connectedUsers =>
                   /\ \E e \in Emitted("new_message")' :
                         /\ e.to = {connectedUsers[t.recipientId]}
                         /\ e.messageId = t.messageId
                   /\ t.recipientId \in messages'[t.messageId].deliveredTo ]_vars

\* C25: a step that changes deliveredTo of a message changes readBy of no message,
\* and a step that changes readBy of a message changes deliveredTo of no message; a
\* message is created unread, and a user enters readBy only by the user's own
\* mark_read or conversation fetch, so a delivered message stays unread until then
C25_DeliveryAndReadIndependent ==
    [][ /\ (\E i \in DOMAIN messages : messages'[i].deliveredTo # messages[i].deliveredTo)
             => \A i \in DOMAIN messages : messages'[i].readBy = messages[i].readBy
        /\ (\E i \in DOMAIN messages : messages'[i].readBy # messages[i].readBy)
             => \A i \in DOMAIN messages :
                   messages'[i].deliveredTo = messages[i].deliveredTo
        /\ \A i \in DOMAIN messages' \ DOMAIN messages : messages'[i].readBy = {}
        /\ \A i \in DOMAIN messages :
             \A r \in messages'[i].readBy \ messages[i].readBy :
                \E t \in inflight : UpdateManySettles(t) /\ t.userId = r ]_vars

\* the handler of a message has finished after recording the delivery, and the
\* message is still unread
C25_Witness ==
    \E i \in DOMAIN messages :
        /\ HandlerDone(i)
        /\ "message_delivered" \in Recorded(i)
        /\ messages[i].deliveredTo = {messages[i].recipients[1]}
        /\ messages[i].readBy = {}

C27_ConnectionEventsTakeEffectInOrder ==
    \A t \in inflight, u \in inflight :
        ( /\ t.sock # NoSocket
          /\ t.sock = u.sock
          /\ t.seq < u.seq
          /\ t.op = "send_message"
          /\ t.pc = "create" )
           => u.pc \in {"create", "updateMany"}

\* C28: at the step in which a send decides whether the recipient of its message
\* can be reached, the offline-notification hook is fired for the message when the
\* registry does not hold the recipient, and not fired when it does
C28_OfflineHookIffUnreachable ==
    [][ \A t \in inflight :
          (LooksUp(t) \/ PostResponds(t)) =>
             ( (\E e \in Emitted("Notification")' : e.messageId = t.messageId)
                  <=> t.recipientId \notin DOMAIN connectedUsers ) ]_vars

----------------------------------------------------------------------------
(* Presence broadcasts *)

\* the step accepts a connection
Connects == Len(sockets') = Len(sockets) + 1

\* C29: when a connection of user U is accepted, user_online naming U is sent to
\* every socket that was open before and online_users is sent to the new socket with
\* the keys of the registry, U among them; when a connection of U closes,
\* user_offline naming U is sent to the sockets that stay open and the online_users
\* of the step does not name U; every online_users carries the keys of the registry,
\* and a user enters the registry only by a connection of that user, so no later
\* online_users names U before U connects again
C29_PresenceBroadcasts ==
    [][ /\ Connects =>
             \A h \in { Len(sockets') } : \A userId \in { sockets'[h].userId } :
                /\ \E e \in Emitted("user_online")' :
                      e.userId = userId /\ e.to = Connected
                /\ \E e \in Emitted("online_users")' :
                      /\ h \in e.to
                      /\ e.keys = DOMAIN connectedUsers'
                      /\ userId \in e.keys
        /\ \A h \in Handles :
             Disconnects(h) =>
                /\ \E e \in Emitted("user_offline")' :
                      e.userId = sockets[h].userId /\ e.to = Connected \ {h}
                /\ \A e \in Emitted("online_users")' : sockets[h].userId \notin e.keys
        /\ \A e \in Emitted("online_users")' : e.keys = DOMAIN connectedUsers'
        /\ \A userId \in DOMAIN connectedUsers' \ DOMAIN connectedUsers :
             Connects /\ sockets'[Len(sockets')].userId = userId ]_vars

\* a connection has just closed while another socket stays open: user_offline went
\* to the open socket and the snapshot of the step names the users still registered
C29_Witness ==
    /\ \E e \in Emitted("user_offline") : e.to # {} /\ e.userId \notin DOMAIN connectedUsers
    /\ \E e \in Emitted("online_users") : e.keys # {}

\* C30: every persisted message has exactly one recipient, and the recipient is not
\* the sender: a send to oneself persists no message
C30_TwoDistinctParticipants ==
    \A i \in DOMAIN messages :
        /\ Len(messages[i].recipients) = 1
        /\ messages[i].recipients[1] # messages[i].sender

----------------------------------------------------------------------------
(* Properties of the conversation history *)

\* the messages between a viewer and a counterpart, in either direction
Between(viewer, counterpart) ==
    { i \in DOMAIN messages :
        \/ messages[i].sender = viewer /\ messages[i].recipients[1] = counterpart
        \/ messages[i].sender = counterpart /\ messages[i].recipients[1] = viewer }

\* the ids of the messages in the last step's response, in order
ReturnedIds ==
    LET entries == SelectSeq(outbox, LAMBDA e : e.ev = "message")
    IN  [n \in DOMAIN entries |-> entries[n].messageId]

\* the step ends the history fetch of task t with the response 200
HistoryResponds(t) ==
    /\ t.op \in {"GET conversation", "GET messages conversation"}
    /\ t \notin inflight'
    /\ \E e \in Emitted("response")' : 200 \in e.keys /\ e.userId = t.userId

\* ids are the messages between the viewer and the counterpart of task t, each once,
\* oldest first
WholeConversation(ids, t) ==
    /\ { ids[n] : n \in DOMAIN ids } = Between(t.userId, t.recipientId)
    /\ \A m, n \in DOMAIN ids :
          m < n => /\ ids[m] # ids[n]
                   /\ messages[ids[m]].createdAt <= messages[ids[n]].createdAt

\* C31: a history fetch whose counterpart is no user does not succeed, and a step
\* that responds 404 changes no message; the query of a fetch that succeeds finds
\* the messages between the viewer and the counterpart and no others, oldest first,
\* and the response carries the messages found
C31_FetchNotFoundOrWholeConversation ==
    [][ /\ \A e \in Emitted("response")' : 404 \in e.keys => messages' = messages
        /\ \A t \in inflight :
             HistoryResponds(t) =>
                /\ t.recipientId \in Users
                /\ IF t.pc = "updateMany"
                   THEN ReturnedIds' = t.found
                   ELSE WholeConversation(ReturnedIds', t)
        /\ \A u \in inflight' \ inflight :
             (u.op = "GET conversation" /\ u.pc = "updateMany")
                => WholeConversation(u.found, u) ]_vars

\* the two participants of message i
Participants(i) == { messages[i].sender, messages[i].recipients[1] }

\* C32: every entry point stores a message under the same conversation id of its
\* sender and recipient: two persisted messages with the same two participants carry
\* the same conversation id
C32_OneConversationIdPerPair ==
    \A i \in DOMAIN messages, j \in DOMAIN messages :
        Participants(i) = Participants(j)
           => messages[i].conversationId = messages[j].conversationId

----------------------------------------------------------------------------
(* Who can write the flags, and in whose name *)

\* C33: readBy and deliveredTo of a persisted message hold no id but the id of the
\* recipient of the message
C33_FlagsHoldOnlyTheRecipient ==
    \A i \in DOMAIN messages :
        /\ messages[i].readBy \subseteq {messages[i].recipients[1]}
        /\ messages[i].deliveredTo \subseteq {messages[i].recipients[1]}

\* C34: every entry of the registry maps its user to the handle of a socket that is
\* open
C34_RegistryHoldsOpenSockets ==
    \A k \in DOMAIN connectedUsers : connectedUsers[k] \in Connected

\* a socket has closed and the registry still holds an entry
C34_Witness ==
    /\ \E h \in Handles : sockets[h].state = "closed"
    /\ DOMAIN connectedUsers # {}

\* C35: user_offline naming a user is sent only when no socket of the user stays
\* open; when a socket of a user closes while another socket of the user is open, no
\* user_offline names the user and the online_users of the step names the user
C35_OfflineOnlyAfterLastConnection ==
    [][ \A h \in Handles :
          Disconnects(h) =>
             \A userId \in { sockets[h].userId } \cap Users :
                LiveHandlesOf(userId) # {h} =>
                   /\ \A e \in Emitted("user_offline")' : e.userId # userId
                   /\ \A e \in Emitted("online_users")' : userId \in e.keys ]_vars

----------------------------------------------------------------------------
(* Order of the steps of a send over a socket *)

\* what happens to a message sent over a socket, in the order of the claim
Lifecycle ==
    << "send_message", "message_sent", "new_message", "deliveredTo", "message_delivered" >>

\* what is recorded for message id, without the errors
Steps(id) == SelectSeq(history[id], LAMBDA what : what # "message_error")

\* C36: for a message sent over a socket, persistence comes first, then message_sent
\* to the sender, then new_message to the recipient, then the deliveredTo update,
\* then message_delivered to the sender; and message_delivered is emitted for a
\* message only when deliveredTo of the message holds its recipient
C36_SendStepsInOrder ==
    /\ \A id \in DOMAIN history :
          history[id][1] = "send_message" =>
             /\ Len(Steps(id)) <= Len(Lifecycle)
             /\ \A n \in DOMAIN Steps(id) : Steps(id)[n] = Lifecycle[n]
    /\ \A m \in DOMAIN outbox, n \in DOMAIN outbox :
          ( /\ outbox[m].ev = "message_sent"
            /\ outbox[n].ev = "new_message"
            /\ outbox[m].messageId = outbox[n].messageId ) => m < n
    /\ \A e \in Emitted("message_delivered") :
          /\ e.messageId \in DOMAIN messages
          /\ messages[e.messageId].recipients[1] \in messages[e.messageId].deliveredTo

\* a send over a socket has gone through all five steps
C36_Witness ==
    \E id \in DOMAIN history : HandlerDone(id) /\ history[id] = Lifecycle

\* C37: a handler that a socket event starts acts in the name of the identity of the
\* token verified at the handshake of the socket; the sender of a new message is the
\* caller of the send that created it, and a user enters readBy only by an update of
\* a handler whose caller is that user, whatever the payload names
C37_CallerIsAuthorAndReader ==
    [][ /\ \A u \in inflight' \ inflight :
             (u.sock # NoSocket /\ u.pc \in {"create", "updateMany"}) =>
                /\ sockets[u.sock].token.verifies
                /\ u.userId = HandshakeUserId(sockets[u.sock].token)
        /\ Len(messages') = Len(messages) + 1 =>
             \E t \in inflight :
                /\ IsSend(t) /\ t.pc = "create" /\ t \notin inflight'
                /\ messages'[Len(messages')].sender = t.userId
        /\ \A i \in DOMAIN messages :
             \A r \in messages'[i].readBy \ messages[i].readBy :
                \E t \in inflight : UpdateManySettles(t) /\ t.userId = r ]_vars

\* a message sent over a socket has been marked read by its recipient, whose
\* mark_read named the sender in its payload
C37_Witness ==
    \E i \in DOMAIN messages :
        /\ history[i][1] = "send_message"
        /\ messages[i].sender # messages[i].recipients[1]
        /\ messages[i].readBy = {messages[i].recipients[1]}
        /\ \E h \in Handles : sockets[h].userId = messages[i].sender

----------------------------------------------------------------------------
(* Properties of the unread badge *)

\* the step ends the unread-count request of task t with the response 200
UnreadResponds(t) ==
    /\ t.op \in {"GET unread count", "router GET unread count"}
    /\ t \notin inflight'
    /\ \E e \in Emitted("response")' : 200 \in e.keys /\ e.userId = t.userId

\* the sum of the unread counts that the entries of a list report
RECURSIVE SumUnread(_)
SumUnread(entries) ==
    IF entries = <<>> THEN 0
    ELSE (CHOOSE n \in Head(entries).keys : TRUE) + SumUnread(Tail(entries))

\* C38: the count that the unread-count endpoint returns to a user is the sum of the
\* unread counts of the entries that the conversation list returns to the same user
\* from the same message log
C38_UnreadTotalIsSumOfListCounts ==
    [][ \A t \in inflight :
          UnreadResponds(t) =>
             \A latest \in LatestMessages(t.userId) :
                (\A n \in DOMAIN latest : ~PopulateThrows(latest[n], t.userId)) =>
                   \A e \in Emitted("count")' :
                      e.keys = { SumUnread(Entries(latest, t.userId, FALSE)) } ]_vars

====
